---- MODULE Spec2Model ----
(***************************************************************************)
(* OutputEventFilter and OutputVerboseFilter of awx/main/utils/common.py:  *)
(* the file-like objects that receive the stdout of a job in chunks, find  *)
(* the encoded job events in it and hand event dictionaries to a callback. *)
(*                                                                         *)
(* Text is a sequence of characters, a character a string.  ESC stands for *)
(* "\x1b".  A Python dict is a TLA+ function from its keys (a record);     *)
(* other Python values are wrapped, see PyNone, PyDict, PyList.            *)
(***************************************************************************)
EXTENDS Integers, Sequences, FiniteSets, TLC

\* ------------------------------------------------------------------ bounds

\* The number of characters the job writes before it ends, at most.
MaxLen == 31
\* The number of times close is called on one filter.
MaxCloses == 2

\* --------------------------------------------------------------- characters

ESC == "ESC"

Digits == {"0", "1", "2", "3", "4", "5", "6", "7", "8", "9"}

Letters ==
  {"A", "B", "C", "D", "E", "F", "G", "H", "I", "J", "K", "L", "M",
   "N", "O", "P", "Q", "R", "S", "T", "U", "V", "W", "X", "Y", "Z",
   "a", "b", "c", "d", "e", "f", "g", "h", "i", "j", "k", "l", "m",
   "n", "o", "p", "q", "r", "s", "t", "u", "v", "w", "x", "y", "z"}

\* The character class [A-Za-z0-9+/=] of EVENT_DATA_RE.
Base64Chars == Letters \cup Digits \cup {"+", "/", "="}

\* The token '\x1b[K' that opens and closes an encoded event.
EventToken == <<ESC, "[", "K">>

\* -------------------------------------------------------------------- text

\* s[i:] of Python, i counted from 1.
From(s, i) == SubSeq(s, i, Len(s))

\* Whether t occurs in s at position i.
HasAt(s, i, t) ==
  /\ i >= 1
  /\ i + Len(t) - 1 <= Len(s)
  /\ SubSeq(s, i, i + Len(t) - 1) = t

\* Python's 't in s'.
Contains(s, t) ==
  \/ t = <<>>
  \/ \E i \in 1..Len(s) : s[i] = t[1] /\ HasAt(s, i, t)

\* s.count('\n')
CountNewlines(s) == Cardinality({i \in 1..Len(s) : s[i] = "\n"})

\* The first position >= i of s that holds no character of class, Len(s)+1
\* when there is none: where a greedy class+ that starts at i ends.
RECURSIVE RunEnd(_, _, _)
RunEnd(s, i, class) ==
  IF i <= Len(s) /\ s[i] \in class THEN RunEnd(s, i + 1, class) ELSE i

\* --------------------------------------------------- the EVENT_DATA_RE regex

\* Where a cursor-move token \x1b\[\d+D that starts at i ends (the position
\* after it), 0 when none starts at i.
MoveEnd(s, i) ==
  IF ~HasAt(s, i, <<ESC, "[">>) THEN 0
  ELSE LET d == RunEnd(s, i + 2, Digits)
       IN  IF d > i + 2 /\ d <= Len(s) /\ s[d] = "D" THEN d + 1 ELSE 0

\* Where one repetition [A-Za-z0-9+/=]+\x1b\[\d+D that starts at i ends, 0
\* when none starts at i.  The payload run is followed by ESC, which is not
\* of its class, so the greedy run is the only way to match.
GroupEnd(s, i) ==
  LET p == RunEnd(s, i, Base64Chars)
  IN  IF p > i THEN MoveEnd(s, p) ELSE 0

\* Where the greedy (?:...)+ that starts at i ends; i when no repetition
\* matches there.
RECURSIVE GroupsEnd(_, _)
GroupsEnd(s, i) ==
  LET g == GroupEnd(s, i)
  IN  IF g = 0 THEN i ELSE GroupsEnd(s, g)

\* EVENT_DATA_RE.match at position i: the position after the match, 0 when
\* the pattern does not match at i.
MatchEnd(s, i) ==
  IF ~HasAt(s, i, EventToken) THEN 0
  ELSE LET g == GroupsEnd(s, i + 3)
       IN  IF g > i + 3 /\ HasAt(s, g, EventToken) THEN g + 3 ELSE 0

NoMatch == [found |-> FALSE, start |-> 0, end |-> 0, group |-> <<>>]

\* EVENT_DATA_RE.search(value): the leftmost match, looked for from position
\* i on.  start is the position of its first character, end the position
\* after its last one, group is match.group(1).
RECURSIVE SearchFrom(_, _)
SearchFrom(value, i) ==
  IF i > Len(value) THEN NoMatch
  ELSE IF value[i] # ESC THEN SearchFrom(value, i + 1)
  ELSE LET e == MatchEnd(value, i)
       IN  IF e = 0 THEN SearchFrom(value, i + 1)
           ELSE [found |-> TRUE, start |-> i, end |-> e,
                 group |-> SubSeq(value, i + 3, e - 4)]

EventDataSearch(value) == SearchFrom(value, 1)

\* re.sub(r'\x1b\[\d+D', '', s)
RECURSIVE StripMoves(_)
StripMoves(s) ==
  IF s = <<>> THEN <<>>
  ELSE LET m == MoveEnd(s, 1)
       IN  IF m # 0 THEN StripMoves(From(s, m))
           ELSE <<Head(s)>> \o StripMoves(Tail(s))

\* -------------------------------------------------------------- splitlines

\* The line boundaries of str.splitlines: \n, \r, \r\n, \v, \f, \x1c, \x1d,
\* \x1e, \x85, \u2028 and \u2029.
LineBreaks == {"\n", "\r", "\f", "VT", "FS", "GS", "RS", "NEL", "LS", "PS"}

\* s.splitlines(True): the lines of s with their line breaks kept.
RECURSIVE SplitLines(_)
SplitLines(s) ==
  IF s = <<>> THEN <<>>
  ELSE LET breaks == {j \in 1..Len(s) : s[j] \in LineBreaks}
       IN  IF breaks = {} THEN <<s>>
           ELSE LET j == CHOOSE b \in breaks : \A c \in breaks : b <= c
                    e == IF s[j] = "\r" /\ j < Len(s) /\ s[j + 1] = "\n"
                         THEN j + 1 ELSE j
                IN  <<SubSeq(s, 1, e)>> \o SplitLines(From(s, e + 1))

\* ----------------------------------------------------------- Python values

PyNone == [type |-> "NoneType"]
PyDict(d) == [type |-> "dict", items |-> d]
PyList(l) == [type |-> "list", items |-> l]

\* {} : the dict without keys.
EmptyDict == <<>>

\* bool(v)
Truthy(v) ==
  CASE v.type = "NoneType" -> FALSE
    [] v.type = "dict" -> DOMAIN v.items # {}
    [] v.type = "list" -> v.items # <<>>

\* ------------------------------------------------------- decoding a payload

\* json.loads(base64.b64decode(base64_data)), by its outcome: the value, or
\* the ValueError that either call raises.  A payload letter stands for a
\* block of base64 text; the payloads that decode are the ones listed, every
\* other text is not the base64 of a JSON document.
JsonOfBase64(base64_data) ==
  CASE base64_data = <<"a", "b">> ->
         [raises |-> FALSE,
          value |-> PyDict([uuid |-> "abc-1", event |-> "task_start"])]
    [] base64_data = <<"u">> ->
         [raises |-> FALSE,
          value |-> PyDict([uuid |-> "abc-2", counter |-> 99])]
    [] base64_data = <<"l">> ->
         [raises |-> FALSE, value |-> PyList(<<1>>)]
    [] OTHER -> [raises |-> TRUE, value |-> PyNone]

\* DecodeEventData with a record that has a uuid for a payload that does
\* not decode.
DecodeEventDataTagsFailure(group) ==
  LET base64_data == StripMoves(group)
      decoded == JsonOfBase64(base64_data)
  IN  IF decoded.raises THEN PyDict([uuid |-> "undecoded"])
      ELSE decoded.value

\* The try/except of write: the value decoded from match.group(1), {} when
\* decoding raises ValueError.
DecodeEventData(group) ==
  LET base64_data == StripMoves(group)
      decoded == JsonOfBase64(base64_data)
  IN  IF decoded.raises THEN PyDict(EmptyDict) ELSE decoded.value

\* ------------------------------------------------------------- _emit_event

\* The four assignments of the loop body to event_data.
WithItems(event_data, n, stdout, first, last) ==
  [k \in DOMAIN event_data \cup {"counter", "stdout", "start_line", "end_line"} |->
     CASE k = "counter" -> n
       [] k = "stdout" -> stdout
       [] k = "start_line" -> first
       [] k = "end_line" -> last
       [] OTHER -> event_data[k]]

\* StdoutOf with the chunk kept whole.
StdoutOfWholeChunk(stdout_chunk) == stdout_chunk

\* stdout_chunk[:-2] if len(stdout_chunk) > 2 else ""
StdoutOf(stdout_chunk) ==
  IF Len(stdout_chunk) > 2
  THEN SubSeq(stdout_chunk, 1, Len(stdout_chunk) - 2)
  ELSE <<>>

\* EmitChunk with 'self._counter += 1' skipped when the chunk has no newline.
EmitChunkSkipsCounter(st, stdout_chunk) ==
  LET n_lines == CountNewlines(stdout_chunk)
      n == IF n_lines = 0 THEN st.counter ELSE st.counter + 1
      data == WithItems(st.event_data, n, StdoutOf(stdout_chunk),
                        st.start_line, st.start_line + n_lines)
  IN  [counter |-> n,
       start_line |-> st.start_line + n_lines,
       event_data |-> data,
       out |-> Append(st.out, data),
       spans |-> Append(st.spans, stdout_chunk)]

\* EmitChunk with 'self._start_line += n_lines' left out.
EmitChunkKeepsStartLine(st, stdout_chunk) ==
  LET n_lines == CountNewlines(stdout_chunk)
      data == WithItems(st.event_data, st.counter + 1, StdoutOf(stdout_chunk),
                        st.start_line, st.start_line + n_lines)
  IN  [counter |-> st.counter + 1,
       start_line |-> st.start_line,
       event_data |-> data,
       out |-> Append(st.out, data),
       spans |-> Append(st.spans, stdout_chunk)]

\* EmitChunk with n_lines counted in the stdout delivered.
EmitChunkCountsStdout(st, stdout_chunk) ==
  LET n_lines == CountNewlines(StdoutOf(stdout_chunk))
      data == WithItems(st.event_data, st.counter + 1, StdoutOf(stdout_chunk),
                        st.start_line, st.start_line + n_lines)
  IN  [counter |-> st.counter + 1,
       start_line |-> st.start_line + n_lines,
       event_data |-> data,
       out |-> Append(st.out, data),
       spans |-> Append(st.spans, stdout_chunk)]

\* One pass of 'for stdout_chunk in stdout_chunks' : st holds _counter,
\* _start_line, the dict event_data, the events handed to the callback and,
\* as a record of what happened, the stdout_chunk each event was built from.
EmitChunk(st, stdout_chunk) ==
  LET n_lines == CountNewlines(stdout_chunk)
      data == WithItems(st.event_data, st.counter + 1, StdoutOf(stdout_chunk),
                        st.start_line, st.start_line + n_lines)
  IN  [counter |-> st.counter + 1,
       start_line |-> st.start_line + n_lines,
       event_data |-> data,
       out |-> Append(st.out, data),
       spans |-> Append(st.spans, stdout_chunk)]

RECURSIVE EmitChunks(_, _)
EmitChunks(st, stdout_chunks) ==
  IF stdout_chunks = <<>> THEN st
  ELSE EmitChunks(EmitChunk(st, Head(stdout_chunks)), Tail(stdout_chunks))

\* ChosenChunks with one empty chunk for an empty text when no record is
\* pending.
ChosenChunksEmptyVerbose(self, buffered_stdout) ==
  IF Truthy(self.current_event_data) THEN <<buffered_stdout>>
  ELSE IF buffered_stdout # <<>> THEN SplitLines(buffered_stdout)
  ELSE <<<<>>>>

\* ChosenChunks with no chunk for an empty text under a pending record.
ChosenChunksSkipsEmpty(self, buffered_stdout) ==
  IF buffered_stdout = <<>> THEN <<>>
  ELSE IF Truthy(self.current_event_data) THEN <<buffered_stdout>>
  ELSE SplitLines(buffered_stdout)

\* The dict and the chunks that the if/elif/else of _emit_event chooses.
ChosenEventData(self, buffered_stdout) ==
  IF Truthy(self.current_event_data) THEN self.current_event_data.items
  ELSE [event |-> "verbose"]

ChosenChunks(self, buffered_stdout) ==
  IF Truthy(self.current_event_data) THEN <<buffered_stdout>>
  ELSE IF buffered_stdout # <<>> THEN SplitLines(buffered_stdout)
  ELSE <<>>

\* bool(next_event_data.get('uuid', None)) : uuid values are strings.
HasUuid(d) == "uuid" \in DOMAIN d /\ d.uuid # ""

\* For each event of one _emit_event call, whether the dict handed to the
\* callback is one it has been handed before.  The verbose branch makes one
\* dict, dict(event='verbose'), and assigns to it for every chunk; the
\* pending branch assigns to self._current_event_data, which has the key
\* 'stdout' exactly when the loop has assigned to it, and so handed it over,
\* in an earlier call (no decoded payload has that key).
RECURSIVE SameDictFrom(_, _)
SameDictFrom(first, n) ==
  IF n = 0 THEN <<>> ELSE <<first>> \o SameDictFrom(TRUE, n - 1)

SameDict(self, n) ==
  SameDictFrom(/\ Truthy(self.current_event_data)
               /\ "stdout" \in DOMAIN self.current_event_data.items, n)

\* _emit_event with next_event_data made the pending record before the
\* chunks are handed over.
emit_eventNextRecordFirst(self, buffered_stdout, next_event_data) ==
  LET next == IF Truthy(next_event_data) THEN next_event_data
              ELSE PyDict(EmptyDict)
      early == IF next.type = "dict" /\ HasUuid(next.items)
               THEN [self EXCEPT !.current_event_data = next]
               ELSE self
      pending == Truthy(early.current_event_data)
      st == EmitChunks([counter |-> self.counter,
                        start_line |-> self.start_line,
                        event_data |-> ChosenEventData(early, buffered_stdout),
                        out |-> <<>>, spans |-> <<>>],
                       ChosenChunks(early, buffered_stdout))
      after == [self EXCEPT !.counter = st.counter,
                            !.start_line = st.start_line]
  IN  IF next.type # "dict"
      THEN [self |-> [after EXCEPT !.current_event_data =
                        IF pending THEN PyDict(st.event_data) ELSE @],
            out |-> st.out, spans |-> st.spans,
            reused |-> SameDict(early, Len(st.out)), raised |-> TRUE]
      ELSE [self |-> [after EXCEPT !.current_event_data =
                        IF HasUuid(next.items) THEN next ELSE PyNone],
            out |-> st.out, spans |-> st.spans,
            reused |-> SameDict(early, Len(st.out)), raised |-> FALSE]

\* _emit_event(buffered_stdout, next_event_data).  The result holds the
\* filter afterwards, the events handed to the callback, the text each was
\* built from and whether the call raised: next_event_data.get raises
\* AttributeError when the value is not a dict, after the loop has run.  The pending dict is the object the loop
\* assigns to, so when the call raises and leaves it in place it carries
\* the items of the event emitted last.
emit_event(self, buffered_stdout, next_event_data) ==
  LET next == IF Truthy(next_event_data) THEN next_event_data
              ELSE PyDict(EmptyDict)
      pending == Truthy(self.current_event_data)
      Result(st) ==
        LET after == [self EXCEPT !.counter = st.counter,
                                  !.start_line = st.start_line]
        IN  IF next.type # "dict"
            THEN [self |-> [after EXCEPT !.current_event_data =
                              IF pending THEN PyDict(st.event_data) ELSE @],
                  out |-> st.out, spans |-> st.spans,
                  reused |-> SameDict(self, Len(st.out)), raised |-> TRUE]
            ELSE [self |-> [after EXCEPT !.current_event_data =
                              IF HasUuid(next.items) THEN next ELSE PyNone],
                  out |-> st.out, spans |-> st.spans,
                  reused |-> SameDict(self, Len(st.out)), raised |-> FALSE]
  IN  CHOOSE result \in
        {Result(st) :
           st \in {EmitChunks(
                     [counter |-> self.counter,
                      start_line |-> self.start_line,
                      event_data |-> ChosenEventData(self, buffered_stdout),
                      out |-> <<>>, spans |-> <<>>],
                     ChosenChunks(self, buffered_stdout))}} : TRUE

\* ------------------------------------------------- OutputEventFilter.write

\* The filter after __init__.
NewFilter ==
  [counter |-> 0,
   start_line |-> 0,
   buffer |-> <<>>,
   last_chunk |-> <<>>,
   current_event_data |-> PyNone]

\* The 'while should_search' loop, entered with should_search true.  r holds
\* the filter, the events handed to the callback so far with the text each
\* was built from, the number of matches found, the value decoded from the
\* last of them and whether the call raised.
RECURSIVE SearchLoop(_)
SearchLoop(r) ==
  LET value == r.self.buffer
      match == EventDataSearch(value)
      event_data == DecodeEventData(match.group)
      remainder == From(value, match.end)
      Joined(e) ==
        [self |-> IF e.raised THEN e.self
                  ELSE [e.self EXCEPT !.buffer = remainder,
                                      !.last_chunk = remainder],
         out |-> r.out \o e.out,
         spans |-> r.spans \o e.spans,
         reused |-> r.reused \o e.reused,
         matches |-> r.matches + 1, decoded |-> event_data,
         raised |-> e.raised]
      Continue(after) == IF after.raised THEN after ELSE SearchLoop(after)
  IN  IF ~match.found THEN r
      ELSE CHOOSE result \in
             {Continue(after) :
                after \in {Joined(e) :
                             e \in {emit_event(
                                      r.self,
                                      SubSeq(value, 1, match.start - 1),
                                      event_data)}}} : TRUE

\* write that hands over the text of the buffer when it matched nothing.
writeFlushesText(self, data) ==
  LET should_search == Contains(self.last_chunk \o data, EventToken)
      start == [self |-> [self EXCEPT !.buffer = @ \o data,
                                      !.last_chunk = data],
                out |-> <<>>, spans |-> <<>>, reused |-> <<>>,
                matches |-> 0,
                decoded |-> PyNone, raised |-> FALSE]
      Flushed(r) ==
        IF r.matches = 0 /\ r.self.buffer # <<>>
        THEN LET e == emit_event(r.self, r.self.buffer, PyNone)
             IN  [self |-> [e.self EXCEPT !.buffer = <<>>],
                  out |-> e.out, spans |-> e.spans, reused |-> e.reused,
                  searched |-> should_search, matches |-> 0,
                  decoded |-> PyNone, raised |-> FALSE]
        ELSE [self |-> r.self, out |-> r.out, spans |-> r.spans,
              reused |-> r.reused, searched |-> should_search,
              matches |-> r.matches, decoded |-> r.decoded,
              raised |-> r.raised]
  IN  CHOOSE result \in
        {Flushed(r) :
           r \in {IF should_search THEN SearchLoop(start) ELSE start}} : TRUE

\* write that searches the buffer in every call.
writeAlwaysSearches(self, data) ==
  LET should_search == TRUE
      start == [self |-> [self EXCEPT !.buffer = @ \o data,
                                      !.last_chunk = data],
                out |-> <<>>, spans |-> <<>>, reused |-> <<>>,
                matches |-> 0,
                decoded |-> PyNone, raised |-> FALSE]
      Result(r) ==
        [self |-> r.self, out |-> r.out, spans |-> r.spans,
         reused |-> r.reused, searched |-> should_search,
         matches |-> r.matches, decoded |-> r.decoded, raised |-> r.raised]
  IN  CHOOSE result \in
        {Result(r) :
           r \in {IF should_search THEN SearchLoop(start) ELSE start}} : TRUE

\* write with the escape token looked for in data alone.
writeLooksAtDataOnly(self, data) ==
  LET should_search == Contains(data, EventToken)
      start == [self |-> [self EXCEPT !.buffer = @ \o data,
                                      !.last_chunk = data],
                out |-> <<>>, spans |-> <<>>, reused |-> <<>>,
                matches |-> 0,
                decoded |-> PyNone, raised |-> FALSE]
      Result(r) ==
        [self |-> r.self, out |-> r.out, spans |-> r.spans,
         reused |-> r.reused, searched |-> should_search,
         matches |-> r.matches, decoded |-> r.decoded, raised |-> r.raised]
  IN  CHOOSE result \in
        {Result(r) :
           r \in {IF should_search THEN SearchLoop(start) ELSE start}} : TRUE

\* OutputEventFilter.write(data); data is text, which smart_str returns as
\* it is.  The result also tells whether the buffer was searched.
write(self, data) ==
  LET should_search == Contains(self.last_chunk \o data, EventToken)
      start == [self |-> [self EXCEPT !.buffer = @ \o data,
                                      !.last_chunk = data],
                out |-> <<>>, spans |-> <<>>, reused |-> <<>>,
                matches |-> 0,
                decoded |-> PyNone, raised |-> FALSE]
      Result(r) ==
        [self |-> r.self, out |-> r.out, spans |-> r.spans,
         reused |-> r.reused, searched |-> should_search,
         matches |-> r.matches, decoded |-> r.decoded, raised |-> r.raised]
  IN  CHOOSE result \in
        {Result(r) :
           r \in {IF should_search THEN SearchLoop(start) ELSE start}} : TRUE

\* ------------------------------------------------------------------- close

EOF(self) == [event |-> "EOF", final_counter |-> self.counter]

\* close with the EOF event handed over before the buffer is looked at.
closeSentinelFirst(self) ==
  LET value == self.buffer
      e == IF value # <<>>
           THEN LET r == emit_event(self, value, PyNone)
                IN  [self |-> [r.self EXCEPT !.buffer = <<>>],
                     out |-> r.out, spans |-> r.spans,
                     reused |-> r.reused]
           ELSE [self |-> self, out |-> <<>>, spans |-> <<>>,
                 reused |-> <<>>]
  IN  [self |-> e.self, out |-> <<EOF(self)>> \o e.out,
       spans |-> <<<<>>>> \o e.spans, reused |-> <<FALSE>> \o e.reused]

\* close without 'self._buffer = StringIO()'.
closeKeepsBuffer(self) ==
  LET value == self.buffer
      e == IF value # <<>>
           THEN LET r == emit_event(self, value, PyNone)
                IN  [self |-> r.self, out |-> r.out, spans |-> r.spans,
                     reused |-> r.reused]
           ELSE [self |-> self, out |-> <<>>, spans |-> <<>>,
                 reused |-> <<>>]
  IN  [self |-> e.self, out |-> Append(e.out, EOF(e.self)),
       spans |-> Append(e.spans, <<>>), reused |-> Append(e.reused, FALSE)]

\* close(): _emit_event(value) has next_event_data None and cannot raise.
close(self) ==
  LET value == self.buffer
      e == IF value # <<>>
           THEN LET r == emit_event(self, value, PyNone)
                IN  [self |-> [r.self EXCEPT !.buffer = <<>>],
                     out |-> r.out, spans |-> r.spans,
                     reused |-> r.reused]
           ELSE [self |-> self, out |-> <<>>, spans |-> <<>>,
                 reused |-> <<>>]
  IN  [self |-> e.self, out |-> Append(e.out, EOF(e.self)),
       spans |-> Append(e.spans, <<>>), reused |-> Append(e.reused, FALSE)]

\* ----------------------------------------------- OutputVerboseFilter.write

\* EmitLines that gives _emit_event the record of a marker found in the
\* line.
RECURSIVE EmitLinesDecodes(_, _)
EmitLinesDecodes(r, lines) ==
  IF lines = <<>> THEN r
  ELSE LET match == EventDataSearch(Head(lines))
           e == emit_event(r.self, Head(lines),
                           IF match.found THEN DecodeEventData(match.group)
                           ELSE PyNone)
       IN  EmitLinesDecodes([self |-> e.self, out |-> r.out \o e.out,
                             spans |-> r.spans \o e.spans,
                             reused |-> r.reused \o e.reused], Tail(lines))

\* 'for line in lines: self._emit_event(line)'
RECURSIVE EmitLines(_, _)
EmitLines(r, lines) ==
  IF lines = <<>> THEN r
  ELSE LET e == emit_event(r.self, Head(lines), PyNone)
       IN  EmitLines([self |-> e.self, out |-> r.out \o e.out,
                      spans |-> r.spans \o e.spans,
                      reused |-> r.reused \o e.reused], Tail(lines))

\* verbose_write without 'self._buffer = StringIO()'.
verbose_writeKeepsAll(self, data) ==
  LET value == self.buffer \o data
      appended == [self EXCEPT !.buffer = value]
  IN  IF data # <<>> /\ Contains(data, <<"\n">>)
      THEN LET all == SplitLines(value)
               partial == ~Contains(all[Len(all)], <<"\n">>)
               lines == IF partial THEN SubSeq(all, 1, Len(all) - 1) ELSE all
               r == EmitLines([self |-> appended, out |-> <<>>,
                               spans |-> <<>>, reused |-> <<>>], lines)
           IN  [self |-> r.self, out |-> r.out, spans |-> r.spans,
                reused |-> r.reused]
      ELSE [self |-> appended, out |-> <<>>, spans |-> <<>>,
            reused |-> <<>>]

\* verbose_write with the last fragment handed over also when it has no
\* newline.
verbose_writeKeepsNothing(self, data) ==
  LET value == self.buffer \o data
      appended == [self EXCEPT !.buffer = value]
  IN  IF data # <<>> /\ Contains(data, <<"\n">>)
      THEN LET r == EmitLines([self |-> appended, out |-> <<>>,
                               spans |-> <<>>, reused |-> <<>>],
                              SplitLines(value))
           IN  [self |-> [r.self EXCEPT !.buffer = <<>>],
                out |-> r.out, spans |-> r.spans, reused |-> r.reused]
      ELSE [self |-> appended, out |-> <<>>, spans |-> <<>>,
            reused |-> <<>>]

verbose_write(self, data) ==
  LET value == self.buffer \o data
      appended == [self EXCEPT !.buffer = value]
  IN  IF data # <<>> /\ Contains(data, <<"\n">>)
      THEN LET all == SplitLines(value)
               partial == ~Contains(all[Len(all)], <<"\n">>)
               remainder == IF partial THEN all[Len(all)] ELSE <<>>
               lines == IF partial THEN SubSeq(all, 1, Len(all) - 1) ELSE all
               r == EmitLines([self |-> appended, out |-> <<>>,
                               spans |-> <<>>, reused |-> <<>>], lines)
           IN  [self |-> [r.self EXCEPT !.buffer = remainder],
                out |-> r.out, spans |-> r.spans, reused |-> r.reused]
      ELSE [self |-> appended, out |-> <<>>, spans |-> <<>>,
            reused |-> <<>>]

\* ------------------------------------------- an event_callback that raises

\* The calls below are those above with an event_callback whose j-th call
\* within the call of the filter raises (j >= 1).  Nothing in the class
\* catches what the callback raises: the loop of _emit_event is left at
\* 'self._event_callback(event_data)', after the counter, the dict and
\* _start_line were assigned for that chunk, and write, close and
\* OutputVerboseFilter.write are left at their call of _emit_event.  In a
\* result, left is the number of calls of the callback up to the one that
\* raises that are still to come, 0 when it has raised.

\* _emit_event whose callback swallows the error: every chunk is handed over.
emit_eventSwallows(self, buffered_stdout, next_event_data, j) ==
  LET e == emit_event(self, buffered_stdout, next_event_data)
  IN  [self |-> e.self, out |-> e.out, spans |-> e.spans,
       reused |-> e.reused, raised |-> e.raised,
       left |-> IF j > Len(e.out) THEN j - Len(e.out) ELSE 0]

emit_eventSinkRaises(self, buffered_stdout, next_event_data, j) ==
  LET stdout_chunks == ChosenChunks(self, buffered_stdout)
      Completed(e) ==
        [self |-> e.self, out |-> e.out, spans |-> e.spans,
         reused |-> e.reused, raised |-> e.raised,
         left |-> j - Len(stdout_chunks)]
      Interrupted(st) ==
        [self |-> [self EXCEPT
                     !.counter = st.counter,
                     !.start_line = st.start_line,
                     !.current_event_data =
                        IF Truthy(@) THEN PyDict(st.event_data) ELSE @],
         out |-> st.out, spans |-> st.spans,
         reused |-> SameDict(self, j), raised |-> TRUE, left |-> 0]
  IN  IF j > Len(stdout_chunks)
      THEN CHOOSE result \in
             {Completed(e) :
                e \in {emit_event(self, buffered_stdout,
                                  next_event_data)}} : TRUE
      ELSE CHOOSE result \in
             {Interrupted(st) :
                st \in {EmitChunks(
                          [counter |-> self.counter,
                           start_line |-> self.start_line,
                           event_data |->
                             ChosenEventData(self, buffered_stdout),
                           out |-> <<>>, spans |-> <<>>],
                          SubSeq(stdout_chunks, 1, j))}} : TRUE

RECURSIVE SearchLoopSinkRaises(_)
SearchLoopSinkRaises(r) ==
  LET value == r.self.buffer
      match == EventDataSearch(value)
      event_data == DecodeEventData(match.group)
      remainder == From(value, match.end)
      Joined(e) ==
        [self |-> IF e.raised THEN e.self
                  ELSE [e.self EXCEPT !.buffer = remainder,
                                      !.last_chunk = remainder],
         out |-> r.out \o e.out,
         spans |-> r.spans \o e.spans,
         reused |-> r.reused \o e.reused,
         matches |-> r.matches + 1, decoded |-> event_data,
         raised |-> e.raised, left |-> e.left]
      Continue(after) ==
        IF after.raised THEN after ELSE SearchLoopSinkRaises(after)
  IN  IF ~match.found THEN r
      ELSE CHOOSE result \in
             {Continue(after) :
                after \in {Joined(e) :
                             e \in {emit_eventSinkRaises(
                                      r.self,
                                      SubSeq(value, 1, match.start - 1),
                                      event_data, r.left)}}} : TRUE

writeSinkRaises(self, data, j) ==
  LET should_search == Contains(self.last_chunk \o data, EventToken)
      start == [self |-> [self EXCEPT !.buffer = @ \o data,
                                      !.last_chunk = data],
                out |-> <<>>, spans |-> <<>>, reused |-> <<>>,
                matches |-> 0, decoded |-> PyNone, raised |-> FALSE,
                left |-> j]
      Result(r) ==
        [self |-> r.self, out |-> r.out, spans |-> r.spans,
         reused |-> r.reused, searched |-> should_search,
         matches |-> r.matches, decoded |-> r.decoded, raised |-> r.raised]
  IN  CHOOSE result \in
        {Result(r) :
           r \in {IF should_search THEN SearchLoopSinkRaises(start)
                  ELSE start}} : TRUE

\* close: when the callback raises in _emit_event the buffer is kept and
\* the EOF event is not made; it can also raise on the EOF event, after the
\* buffer was replaced.
closeSinkRaises(self, j) ==
  LET value == self.buffer
      Result(e) ==
        IF e.raised
        THEN [self |-> e.self, out |-> e.out, spans |-> e.spans,
              reused |-> e.reused, raised |-> TRUE]
        ELSE [self |-> [e.self EXCEPT !.buffer = <<>>],
              out |-> Append(e.out, EOF(e.self)),
              spans |-> Append(e.spans, <<>>),
              reused |-> Append(e.reused, FALSE), raised |-> e.left = 1]
  IN  CHOOSE result \in
        {Result(e) :
           e \in {IF value # <<>>
                  THEN emit_eventSinkRaises(self, value, PyNone, j)
                  ELSE [self |-> self, out |-> <<>>, spans |-> <<>>,
                        reused |-> <<>>, raised |-> FALSE,
                        left |-> j]}} : TRUE

RECURSIVE EmitLinesSinkRaises(_, _)
EmitLinesSinkRaises(r, lines) ==
  LET Joined(e) ==
        [self |-> e.self, out |-> r.out \o e.out,
         spans |-> r.spans \o e.spans,
         reused |-> r.reused \o e.reused,
         raised |-> e.raised, left |-> e.left]
  IN  IF lines = <<>> \/ r.raised THEN r
      ELSE CHOOSE result \in
             {EmitLinesSinkRaises(after, Tail(lines)) :
                after \in {Joined(e) :
                             e \in {emit_eventSinkRaises(
                                      r.self, Head(lines), PyNone,
                                      r.left)}}} : TRUE

\* OutputVerboseFilter.write: when the callback raises, the buffer keeps
\* all of its text, the lines handed over included.
verbose_writeSinkRaises(self, data, j) ==
  LET value == self.buffer \o data
      appended == [self EXCEPT !.buffer = value]
      all == SplitLines(value)
      partial == ~Contains(all[Len(all)], <<"\n">>)
      remainder == IF partial THEN all[Len(all)] ELSE <<>>
      lines == IF partial THEN SubSeq(all, 1, Len(all) - 1) ELSE all
      Result(r) ==
        [self |-> IF r.raised THEN r.self
                  ELSE [r.self EXCEPT !.buffer = remainder],
         out |-> r.out, spans |-> r.spans, reused |-> r.reused,
         raised |-> r.raised]
  IN  IF data # <<>> /\ Contains(data, <<"\n">>)
      THEN CHOOSE result \in
             {Result(r) :
                r \in {EmitLinesSinkRaises(
                         [self |-> appended, out |-> <<>>, spans |-> <<>>,
                          reused |-> <<>>, raised |-> FALSE, left |-> j],
                         lines)}} : TRUE
      ELSE [self |-> appended, out |-> <<>>, spans |-> <<>>,
            reused |-> <<>>, raised |-> FALSE]

\* ---------------------------------------------------------- the job output

\* Cursor-move tokens with one and with two digits.
Move1 == <<ESC, "[", "1", "D">>
Move2 == <<ESC, "[", "1", "2", "D">>

\* An encoded event in two repetitions, whose record has a uuid and an event.
MarkerA == EventToken \o <<"a">> \o Move1 \o <<"b">> \o Move2 \o EventToken
\* An encoded event whose record has a uuid, a counter and no event.
MarkerU == EventToken \o <<"u">> \o Move1 \o EventToken
\* An encoded JSON list.
MarkerL == EventToken \o <<"l">> \o Move1 \o EventToken
\* A marker whose payload does not decode.
MarkerX == EventToken \o <<"x">> \o Move1 \o EventToken

\* The pieces the output of a job is made of: the four markers, the second
\* one followed by a line of its text, and a line of plain text.
Tokens ==
  {MarkerA,
   MarkerU \o <<"o", "\r", "\n">>,
   MarkerL,
   MarkerX,
   <<"h", "e", "l", "l", "o", "\n">>}

RECURSIVE Flatten(_)
Flatten(ts) == IF ts = <<>> THEN <<>> ELSE Head(ts) \o Flatten(Tail(ts))

\* The outputs in S and those of at most MaxLen characters that one or more
\* pieces added to one of them make.
RECURSIVE Extended(_)
Extended(S) ==
  LET more == S \cup {s \o t : s \in S, t \in Tokens}
      fit == {s \in more : Len(s) <= MaxLen}
  IN  IF fit = S THEN S ELSE Extended(fit)

\* The outputs of at most MaxLen characters.
Streams == Extended({<<>>})

\* ------------------------------------------------------------------- state

VARIABLES
  kind,      \* the class constructed: "event" is OutputEventFilter,
             \* "verbose" is OutputVerboseFilter
  filter,    \* the fields of the filter object
  sink,      \* the events event_callback has received, in order
  spans,     \* for each event of sink the text it was built from (empty
             \* for the event of close)
  reused,    \* for each event of sink whether the callback was handed the
             \* dict object of the event before it once more
  input,     \* the output of the job not yet written to the filter
  written,   \* the text written to the filter so far
  closes,    \* the number of calls of close so far
  last       \* the last call: its name, whether it searched the buffer,
             \* the regex matches it made, the value decoded from the last
             \* match, whether it raised, whether its data completed a
             \* marker that the data of the write before it had begun, and
             \* which of its calls of event_callback raised (0 when none)

vars == <<kind, filter, sink, spans, reused, input, written, closes, last>>

NoCall ==
  [op |-> "init", searched |-> FALSE, matches |-> 0, decoded |-> PyNone,
   raised |-> FALSE, split |-> FALSE, sink_raised |-> 0]

Init ==
  /\ kind \in {"event", "verbose"}
  /\ filter = NewFilter
  /\ sink = <<>>
  /\ spans = <<>>
  /\ reused = <<>>
  /\ input \in Streams
  /\ written = <<>>
  /\ closes = 0
  /\ last = NoCall

\* A text that EVENT_DATA_RE matches from its first to its last character.
IsMarker(s) == s # <<>> /\ MatchEnd(s, 1) = Len(s) + 1

\* The call before wrote the first part of a marker and nothing else, and
\* data is the rest of that marker.
CompletesMarker(data) ==
  /\ last.op = "write"
  /\ last.matches = 0
  /\ filter.last_chunk # <<>>
  /\ data # <<>>
  /\ IsMarker(filter.last_chunk \o data)

\* The effect of a call with result r that was given data, after which rest
\* is left of the output.
Called(r, data, rest) ==
  /\ filter' = r.self
  /\ sink' = sink \o r.out
  /\ spans' = spans \o r.spans
  /\ reused' = reused \o r.reused
  /\ input' = rest
  /\ written' = written \o data

\* The reader writes the next n characters of the output to an
\* OutputEventFilter.
Write(n) ==
  /\ kind = "event"
  /\ closes = 0
  /\ \E data \in {SubSeq(input, 1, n)} :
       \E r \in {write(filter, data)} :
         /\ Called(r, data, From(input, n + 1))
         /\ last' = [op |-> "write", searched |-> r.searched,
                     matches |-> r.matches, decoded |-> r.decoded,
                     raised |-> r.raised, split |-> CompletesMarker(data),
                     sink_raised |-> 0]
  /\ UNCHANGED <<kind, closes>>

\* The reader writes the next n characters of the output to an
\* OutputVerboseFilter.
VerboseWrite(n) ==
  /\ kind = "verbose"
  /\ closes = 0
  /\ \E data \in {SubSeq(input, 1, n)} :
       \E r \in {verbose_write(filter, data)} :
         Called(r, data, From(input, n + 1))
  /\ last' = [NoCall EXCEPT !.op = "write"]
  /\ UNCHANGED <<kind, closes>>

\* The reader closes the filter and reads no more of the output.
Close ==
  /\ closes < MaxCloses
  /\ \E r \in {close(filter)} : Called(r, <<>>, <<>>)
  /\ last' = [NoCall EXCEPT !.op = "close"]
  /\ closes' = closes + 1
  /\ UNCHANGED kind

Next ==
  \/ \E n \in 1..Len(input) : Write(n)
  \/ \E n \in 1..Len(input) : VerboseWrite(n)
  \/ Close

Spec == Init /\ [][Next]_vars

\* The same calls with an event_callback that raises at its j-th call
\* within the call of the filter, for every j up to the number of calls of
\* the callback that the call of the filter would make.  sink then holds
\* every event the callback was called with, the one it raised on included.
WriteSinkRaises(n) ==
  /\ kind = "event"
  /\ closes = 0
  /\ \E data \in {SubSeq(input, 1, n)} :
       \E j \in 1..Len(write(filter, data).out) :
         \E r \in {writeSinkRaises(filter, data, j)} :
           /\ Called(r, data, From(input, n + 1))
           /\ last' = [op |-> "write", searched |-> r.searched,
                       matches |-> r.matches, decoded |-> r.decoded,
                       raised |-> r.raised, split |-> CompletesMarker(data),
                       sink_raised |-> j]
  /\ UNCHANGED <<kind, closes>>

VerboseWriteSinkRaises(n) ==
  /\ kind = "verbose"
  /\ closes = 0
  /\ \E data \in {SubSeq(input, 1, n)} :
       \E j \in 1..Len(verbose_write(filter, data).out) :
         \E r \in {verbose_writeSinkRaises(filter, data, j)} :
           /\ Called(r, data, From(input, n + 1))
           /\ last' = [NoCall EXCEPT !.op = "write", !.raised = r.raised,
                                     !.sink_raised = j]
  /\ UNCHANGED <<kind, closes>>

CloseSinkRaises ==
  /\ closes < MaxCloses
  /\ \E j \in 1..Len(close(filter).out) :
       \E r \in {closeSinkRaises(filter, j)} :
         /\ Called(r, <<>>, <<>>)
         /\ last' = [NoCall EXCEPT !.op = "close", !.raised = r.raised,
                                   !.sink_raised = j]
  /\ closes' = closes + 1
  /\ UNCHANGED kind

\* The reader makes no call after one in which its callback raised.
Reading == last.sink_raised = 0

SinkNext ==
  \/ \E n \in 1..Len(input) : Reading /\ Write(n)
  \/ \E n \in 1..Len(input) : Reading /\ VerboseWrite(n)
  \/ Reading /\ Close
  \/ \E n \in 1..Len(input) : Reading /\ WriteSinkRaises(n)
  \/ \E n \in 1..Len(input) : Reading /\ VerboseWriteSinkRaises(n)
  \/ Reading /\ CloseSinkRaises

SinkSpec == Init /\ [][SinkNext]_vars

\* ------------------------------------------------------------ the events

\* The event that close hands to the callback.
IsSentinel(e) == "final_counter" \in DOMAIN e

\* The number of events other than that of close among the first n of sink.
Emitted(n) == Cardinality({i \in 1..n : ~IsSentinel(sink[i])})

\* The keys _emit_event assigns in every event it hands over.
Assigned == {"counter", "stdout", "start_line", "end_line"}

\* C1: the events other than that of close carry the counters 1, 2, ... N in
\* the order they are handed over, with no gap and no repeat; the event of
\* close carries N as final_counter and leaves the counter as it was.
C1_CountersContiguous ==
  /\ \A i \in 1..Len(sink) :
       IF IsSentinel(sink[i])
       THEN sink[i].final_counter = Emitted(i)
       ELSE sink[i].counter = Emitted(i)
  /\ filter.counter = Emitted(Len(sink))

\* A line and an event of a marker were handed over, then close reported
\* the two of them.
C1_Witness ==
  /\ closes = 1
  /\ Len(sink) = 3
  /\ sink[1].event = "verbose" /\ sink[1].counter = 1
  /\ "uuid" \in DOMAIN sink[2] /\ sink[2].counter = 2
  /\ sink[3] = [event |-> "EOF", final_counter |-> 2]

\* What an event says: its items other than the counter and the line range.
Content(e) == [k \in DOMAIN e \ {"counter", "start_line", "end_line"} |-> e[k]]

Contents(events) == [i \in 1..Len(events) |-> Content(events[i])]

\* The events of a new OutputEventFilter that is given text in one write and
\* is then closed.
OneWrite(text) ==
  LET w == write(NewFilter, text)
  IN  w.out \o close(w.self).out

\* C2: the events of a stream that was written and then closed do not depend
\* on how the stream was cut into writes: they are the events of the same
\* text given in one write.
C2_ChunkingIndependent ==
  (kind = "event" /\ closes = 1) => Contents(sink) = Contents(OneWrite(written))

\* The text given to the call that a step makes.
DataOfStep == SubSeq(written', Len(written) + 1, Len(written'))

\* C3: a marker cut at one place and given in two consecutive writes is
\* matched in the second of them, and the record decoded, the pending record
\* afterwards, the buffer, the counters and the events handed over are those
\* of the marker given in one write.
C3_SplitMarkerMatches ==
  [][last'.split =>
       LET first == filter.last_chunk
           before == [filter EXCEPT
                        !.buffer = SubSeq(@, 1, Len(@) - Len(first)),
                        !.last_chunk = <<>>]
           whole == write(before, first \o DataOfStep)
       IN  /\ last'.matches >= 1
           /\ last'.decoded = whole.decoded
           /\ filter'.current_event_data = whole.self.current_event_data
           /\ filter'.buffer = whole.self.buffer
           /\ filter'.counter = whole.self.counter
           /\ filter'.start_line = whole.self.start_line
           /\ sink' = sink \o whole.out]_vars

\* MarkerA was the whole stream, it came in two writes, and the second one
\* matched it and made its record the pending one.
C3_Witness ==
  /\ last.split
  /\ last.matches = 1
  /\ written = MarkerA
  /\ filter.buffer = <<>>
  /\ filter.current_event_data = PyDict([uuid |-> "abc-1", event |-> "task_start"])

\* The events that a step hands over, and the text each was built from.
EventsOfStep == SubSeq(sink', Len(sink) + 1, Len(sink'))

SpansOfStep == SubSeq(spans', Len(spans) + 1, Len(spans'))

\* C4: close hands over exactly one EOF event, as the last event of the
\* call and also when the buffer is empty; what was left in the buffer is
\* handed over before it, and the buffer is empty afterwards.
C4_CloseEndsWithSentinel ==
  [][closes' = closes + 1 =>
       LET new == EventsOfStep
       IN  /\ SubSeq(sink', 1, Len(sink)) = sink
           /\ new # <<>>
           /\ new[Len(new)] = [event |-> "EOF", final_counter |-> filter'.counter]
           /\ \A i \in 1..(Len(new) - 1) : ~IsSentinel(new[i])
           /\ (filter.buffer = <<>>) <=> (Len(new) = 1)
           /\ Flatten(SpansOfStep) = filter.buffer
           /\ filter'.buffer = <<>>]_vars

\* close found an unfinished line in the buffer and handed it over before
\* the EOF event.
C4_Witness ==
  /\ last.op = "close"
  /\ closes = 1
  /\ Len(sink) = 2
  /\ sink[1].event = "verbose"
  /\ spans[1] = <<"h", "e", "l">>
  /\ sink[2] = [event |-> "EOF", final_counter |-> 1]
  /\ filter.buffer = <<>>

\* The lines an event covers.
LineRange(e) == e.end_line - e.start_line

\* C5 as the specification states it: the line range of every event is the
\* number of newlines in the stdout it delivers.
C5_RangeCountsDeliveredStdout ==
  \A i \in 1..Len(sink) :
    ~IsSentinel(sink[i]) => LineRange(sink[i]) = CountNewlines(sink[i].stdout)

\* C5: the line range of every event is the number of newlines in the text
\* the event was built from, of which the delivered stdout lacks the last
\* two characters; so it is never less than the number of newlines in the
\* delivered stdout.
C5_RangeCountsSpan ==
  /\ Len(spans) = Len(sink)
  /\ \A i \in 1..Len(sink) :
       ~IsSentinel(sink[i]) =>
         /\ LineRange(sink[i]) = CountNewlines(spans[i])
         /\ LineRange(sink[i]) >= CountNewlines(sink[i].stdout)
         /\ LineRange(sink[i]) >= 0

\* An event was built from a line that ends in a newline: it covers one line
\* and its stdout has no newline.
C5_Witness ==
  /\ Len(sink) >= 1
  /\ spans[1] = <<"h", "e", "l", "l", "o", "\n">>
  /\ sink[1].stdout = <<"h", "e", "l", "l">>
  /\ sink[1].start_line = 0
  /\ sink[1].end_line = 1

\* The events other than those of close, in the order handed over.
Delivered == SelectSeq(sink, LAMBDA e : ~IsSentinel(e))

Whole(fragment) == fragment

WithoutLastTwo(fragment) ==
  IF Len(fragment) > 2 THEN SubSeq(fragment, 1, Len(fragment) - 2) ELSE <<>>

\* One verbose event per line of text, numbered from 1, with consecutive
\* line ranges from 0, whose stdout is Stdout of the line.
VerboseEvents(text, Stdout(_)) ==
  LET lines == SplitLines(text)
      NewlinesIn(n) == CountNewlines(Flatten(SubSeq(lines, 1, n)))
  IN  [i \in 1..Len(lines) |->
         [event |-> "verbose", counter |-> i, stdout |-> Stdout(lines[i]),
          start_line |-> NewlinesIn(i - 1), end_line |-> NewlinesIn(i)]]

\* A stream without a complete marker, written to an OutputEventFilter that
\* was then closed.
PlainStreamClosed ==
  kind = "event" /\ closes >= 1 /\ ~EventDataSearch(written).found

\* C6 as the specification states it: text without a marker is handed over
\* as one verbose event per line, whose stdout is the whole line.
C6_VerboseStdoutIsWholeLine ==
  PlainStreamClosed => Delivered = VerboseEvents(written, Whole)

\* C6: text without a marker is handed over as one verbose event per line,
\* whose stdout is the line without its last two characters, and is empty
\* when the line has at most two characters.
C6_VerboseStdoutLacksLastTwo ==
  PlainStreamClosed => Delivered = VerboseEvents(written, WithoutLastTwo)

\* Two lines "hello" were written and the filter closed: two verbose events
\* with stdout "hell" and the EOF event.
C6_Witness ==
  /\ kind = "event"
  /\ written = <<"h", "e", "l", "l", "o", "\n", "h", "e", "l", "l", "o", "\n">>
  /\ sink = <<[event |-> "verbose", counter |-> 1,
               stdout |-> <<"h", "e", "l", "l">>,
               start_line |-> 0, end_line |-> 1],
              [event |-> "verbose", counter |-> 2,
               stdout |-> <<"h", "e", "l", "l">>,
               start_line |-> 1, end_line |-> 2],
              [event |-> "EOF", final_counter |-> 2]>>

\* A decoded value that is a record with a truthy uuid.
CarriesUuid(v) ==
  v.type = "dict" /\ "uuid" \in DOMAIN v.items /\ v.items.uuid # ""

\* C7: after a write that matched a marker, the pending record is the record
\* decoded from the last marker matched when that record carries a truthy
\* uuid, and there is no pending record otherwise, whatever was pending
\* before.
C7_PendingIffUuid ==
  (last.op = "write" /\ last.matches >= 1) =>
    filter.current_event_data =
      IF CarriesUuid(last.decoded) THEN last.decoded ELSE PyNone

\* The text in the buffer before the first marker that the write of a step
\* matches.
TextBeforeMatch ==
  LET value == filter.buffer \o DataOfStep
  IN  SubSeq(value, 1, EventDataSearch(value).start - 1)

\* C8: when a write matches a marker, the text buffered before the marker is
\* handed over with the record that was pending before the match: as one
\* event that has the items of that record and no others, or, when no record
\* was pending, as one verbose event per line.  The record decoded from the
\* marker is not used for it.
C8_TextBeforeUsesRecordBefore ==
  [][(last'.op = "write" /\ last'.matches >= 1) =>
       \E before \in {TextBeforeMatch} :
         LET pending == filter.current_event_data
             lines == SplitLines(before)
             new == EventsOfStep
         IN  IF pending # PyNone
             THEN /\ Len(new) >= 1
                  /\ last'.matches = 1 => Len(new) = 1
                  /\ SpansOfStep[1] = before
                  /\ DOMAIN new[1] = DOMAIN pending.items \cup Assigned
                  /\ \A k \in DOMAIN pending.items \ Assigned :
                       new[1][k] = pending.items[k]
             ELSE /\ Len(new) >= Len(lines)
                  /\ last'.matches = 1 => Len(new) = Len(lines)
                  /\ \A i \in 1..Len(lines) :
                       /\ SpansOfStep[i] = lines[i]
                       /\ DOMAIN new[i] = {"event"} \cup Assigned
                       /\ new[i].event = "verbose"]_vars

\* The record of MarkerU was pending when a write matched MarkerA: the line
\* between them was handed over with the uuid of MarkerU and without the
\* event of MarkerA, whose record is pending now.
C8_Witness ==
  /\ last.op = "write"
  /\ last.matches = 1
  /\ last.decoded = PyDict([uuid |-> "abc-1", event |-> "task_start"])
  /\ filter.current_event_data = last.decoded
  /\ Len(sink) = 1
  /\ spans[1] = <<"o", "\r", "\n">>
  /\ sink[1] = [uuid |-> "abc-2", counter |-> 1, stdout |-> <<"o">>,
                start_line |-> 0, end_line |-> 1]

\* The event that has the items of record, with counter n, the stdout of
\* span and the line range that starts at first and covers the newlines of
\* span.
CorrelatedEvent(record, span, n, first) ==
  [k \in DOMAIN record \cup Assigned |->
     CASE k = "counter" -> n
       [] k = "stdout" -> WithoutLastTwo(span)
       [] k = "start_line" -> first
       [] k = "end_line" -> first + CountNewlines(span)
       [] OTHER -> record[k]]

\* C9: a stream of one marker whose record has a truthy uuid and of plain
\* text after it, written and then closed, is handed over as one event that
\* has the items of the record, and the EOF event.
C9_TextAfterMarkerIsOneEvent ==
  (kind = "event" /\ closes = 1) =>
    \A m \in {EventDataSearch(written)} :
      LET text == From(written, m.end)
          record == DecodeEventData(m.group)
      IN  (/\ m.found
           /\ m.start = 1
           /\ CarriesUuid(record)
           /\ text # <<>>
           /\ ~Contains(text, <<ESC>>))
          => sink = <<CorrelatedEvent(record.items, text, 1, 0),
                      [event |-> "EOF", final_counter |-> 1]>>

\* C10: when a record is pending, the text before a marker that a write
\* matches, empty or not, and the text that close finds in the buffer are
\* handed over as exactly one event: the items of the pending record with
\* counter, stdout, start_line and end_line assigned, where stdout is the
\* text without its last two characters, and is empty when the text has at
\* most two characters.
C10_PendingEmitsOneEvent ==
  [][filter.current_event_data # PyNone =>
       LET expected(span) ==
             CorrelatedEvent(filter.current_event_data.items, span,
                             filter.counter + 1, filter.start_line)
       IN  /\ (last'.op = "write" /\ last'.matches >= 1) =>
                /\ EventsOfStep # <<>>
                /\ EventsOfStep[1] = expected(TextBeforeMatch)
                /\ last'.matches = 1 => Len(EventsOfStep) = 1
           /\ (last'.op = "close" /\ filter.buffer # <<>>) =>
                EventsOfStep = <<expected(filter.buffer),
                                 [event |-> "EOF",
                                  final_counter |-> filter.counter + 1]>>]_vars

\* The record of MarkerA was pending and no text followed when a write
\* matched the next marker: one event with the items of that record and an
\* empty stdout was handed over.
C10_Witness ==
  /\ last.op = "write"
  /\ last.matches >= 1
  /\ written = MarkerA \o MarkerX
  /\ spans = <<<<>>>>
  /\ sink = <<[uuid |-> "abc-1", event |-> "task_start", counter |-> 1,
               stdout |-> <<>>, start_line |-> 0, end_line |-> 0]>>

\* C11: after close the filter holds no pending record, whatever the buffer
\* held when close was called.
C11_NoPendingAfterClose ==
  last.op = "close" => filter.current_event_data = PyNone

\* A payload that base64.b64decode or json.loads rejects.
Undecodable(group) == JsonOfBase64(StripMoves(group)).raises

\* events with n added to their counters and first to their line numbers.
Shifted(events, n, first) ==
  [i \in 1..Len(events) |->
     [events[i] EXCEPT !.counter = @ + n,
                       !.start_line = @ + first,
                       !.end_line = @ + first]]

\* The events that text gives under the pending record of the filter: one
\* event with the items of the record, or one verbose event per line when no
\* record is pending.
EventsUnderPending(text) ==
  IF filter.current_event_data # PyNone
  THEN <<CorrelatedEvent(filter.current_event_data.items, text,
                         filter.counter + 1, filter.start_line)>>
  ELSE Shifted(VerboseEvents(text, WithoutLastTwo), filter.counter,
               filter.start_line)

\* C12: when the first marker that a write matches has a payload that does
\* not decode, the text before it is handed over under the record pending
\* before, and the search goes on in the text after the marker; when there
\* is no further marker there, the write does not raise, the decoded record
\* is the empty one, no record is pending and the buffer is the text after
\* the marker.
C12_DecodeFailureIsEmptyRecord ==
  [][(last'.op = "write" /\ last'.matches >= 1) =>
       \A value \in {filter.buffer \o DataOfStep} :
         \A m \in {EventDataSearch(value)} :
           Undecodable(m.group) =>
             LET rest == From(value, m.end)
                 expected == EventsUnderPending(SubSeq(value, 1, m.start - 1))
             IN  /\ Len(EventsOfStep) >= Len(expected)
                 /\ SubSeq(EventsOfStep, 1, Len(expected)) = expected
                 /\ (last'.matches >= 2) <=> EventDataSearch(rest).found
                 /\ last'.matches = 1 =>
                      /\ ~last'.raised
                      /\ last'.decoded = PyDict(EmptyDict)
                      /\ filter'.current_event_data = PyNone
                      /\ filter'.buffer = rest
                      /\ EventsOfStep = expected]_vars

\* The record of MarkerU was pending when a write matched MarkerX, whose
\* payload does not decode: the line between them was handed over with the
\* uuid of MarkerU, and no record is pending.
C12_Witness ==
  /\ last.op = "write"
  /\ ~last.raised
  /\ last.decoded = PyDict(EmptyDict)
  /\ written = MarkerU \o <<"o", "\r", "\n">> \o MarkerX
  /\ filter.current_event_data = PyNone
  /\ filter.buffer = <<>>
  /\ sink = <<[uuid |-> "abc-2", counter |-> 1, stdout |-> <<"o">>,
               start_line |-> 0, end_line |-> 1]>>

\* C13: no call of write or close raises, whatever the payload of a matched
\* marker decodes to.
C13_NoCallRaises == ~last.raised

\* The complete markers of text, found one after the other as the loop of
\* write finds them: their number, the texts before each of them joined, the
\* payload of the last one and the text after it.
RECURSIVE Markers(_)
Markers(text) ==
  LET m == EventDataSearch(text)
  IN  IF ~m.found
      THEN [count |-> 0, between |-> <<>>, group |-> <<>>, rest |-> text]
      ELSE LET after == Markers(From(text, m.end))
           IN  [count |-> after.count + 1,
                between |-> SubSeq(text, 1, m.start - 1) \o after.between,
                group |-> IF after.count = 0 THEN m.group ELSE after.group,
                rest |-> after.rest]

\* C14: a write that returns with several complete markers in the buffer and
\* its data has matched all of them in that call, in the order of the
\* stream: the texts before them were handed over in that order, the pending
\* record is that of the last marker, and the buffer is the text after it,
\* which holds no complete marker.
C14_AllMarkersResolvedInOneWrite ==
  [][(kind = "event" /\ last'.op = "write" /\ ~last'.raised) =>
       \A all \in {Markers(filter.buffer \o DataOfStep)} :
         all.count >= 2 =>
           /\ last'.matches = all.count
           /\ Flatten(SpansOfStep) = all.between
           /\ last'.decoded = DecodeEventData(all.group)
           /\ filter'.current_event_data =
                IF CarriesUuid(last'.decoded) THEN last'.decoded ELSE PyNone
           /\ filter'.buffer = all.rest
           /\ ~EventDataSearch(filter'.buffer).found]_vars

\* The fragments of text that end in a newline or are followed by another
\* fragment, and the fragment withheld: the last one when it has no newline.
CompleteLines(text) ==
  LET lines == SplitLines(text)
  IN  IF lines # <<>> /\ ~Contains(lines[Len(lines)], <<"\n">>)
      THEN SubSeq(lines, 1, Len(lines) - 1)
      ELSE lines

Withheld(text) ==
  LET lines == SplitLines(text)
  IN  IF lines # <<>> /\ ~Contains(lines[Len(lines)], <<"\n">>)
      THEN lines[Len(lines)]
      ELSE <<>>

\* C15: a write to an OutputVerboseFilter whose data has a newline hands over
\* one verbose event for each complete fragment of the buffer and the data,
\* in order, and keeps the fragment withheld as the buffer; a write whose
\* data has no newline hands over nothing and appends the data to the buffer.
C15_VerboseWriteEmitsCompleteLines ==
  [][(kind = "verbose" /\ last'.op = "write") =>
       \A value \in {filter.buffer \o DataOfStep} :
         IF Contains(DataOfStep, <<"\n">>)
         THEN /\ SpansOfStep = CompleteLines(value)
              /\ EventsOfStep =
                   Shifted(VerboseEvents(Flatten(CompleteLines(value)),
                                         WithoutLastTwo),
                           filter.counter, filter.start_line)
              /\ filter'.buffer = Withheld(value)
         ELSE /\ EventsOfStep = <<>>
              /\ filter'.buffer = value]_vars

\* A write to an OutputVerboseFilter brought a line and the beginning of the
\* next one: the line was handed over and the beginning is kept.
C15_Witness ==
  /\ kind = "verbose"
  /\ last.op = "write"
  /\ written = <<"h", "e", "l", "l", "o", "\n", "h", "e">>
  /\ filter.buffer = <<"h", "e">>
  /\ sink = <<[event |-> "verbose", counter |-> 1,
               stdout |-> <<"h", "e", "l", "l">>,
               start_line |-> 0, end_line |-> 1]>>

\* A buffer that holds the opening token of a marker and some of its
\* payload, and no complete marker and no closing token after that payload.
HoldsIncompleteMarker(text) ==
  /\ ~EventDataSearch(text).found
  /\ \E i \in 1..Len(text) :
       /\ HasAt(text, i, EventToken)
       /\ i + 3 <= Len(text)
       /\ text[i + 3] \in Base64Chars
       /\ ~Contains(From(text, i + 3), EventToken)

\* C16: when close finds an incomplete marker in the buffer, the buffer is
\* handed over as plain text under the pending record, or as verbose events
\* when none is pending, before the EOF event, and no record is pending
\* afterwards; when instead a write makes the marker complete, that write
\* matches it.
C16_IncompleteMarkerFlushedOrMatched ==
  [][(kind = "event" /\ HoldsIncompleteMarker(filter.buffer)) =>
       /\ last'.op = "close" =>
            /\ EventsOfStep =
                 Append(EventsUnderPending(filter.buffer),
                        [event |-> "EOF", final_counter |-> filter'.counter])
            /\ filter'.current_event_data = PyNone
       /\ (/\ last'.op = "write"
           /\ EventDataSearch(filter.buffer \o DataOfStep).found)
          => last'.matches >= 1]_vars

\* C17: a close that follows a close with no write in between hands over
\* the EOF event and nothing else, leaves the counter as it was, and its EOF
\* event has the final_counter of the EOF event before it.
C17_SecondCloseOnlySentinel ==
  [][(last.op = "close" /\ last'.op = "close") =>
       /\ EventsOfStep = <<sink[Len(sink)]>>
       /\ IsSentinel(sink[Len(sink)])
       /\ filter'.counter = filter.counter
       /\ sink[Len(sink)].final_counter = filter.counter]_vars

C17_Witness ==
  /\ closes = 2
  /\ last.op = "close"
  /\ written = <<"h", "e", "l", "l", "o", "\n">>
  /\ sink = <<[event |-> "verbose", counter |-> 1,
               stdout |-> <<"h", "e", "l", "l">>,
               start_line |-> 0, end_line |-> 1],
              [event |-> "EOF", final_counter |-> 1],
              [event |-> "EOF", final_counter |-> 1]>>

\* The items of an event that _emit_event assigns before it hands it over.
Assigned4(e) ==
  [counter |-> e.counter, stdout |-> e.stdout,
   start_line |-> e.start_line, end_line |-> e.end_line]

\* C18: a dict the callback has received is not assigned to afterwards:
\* whenever the callback is handed the dict of the event before once more,
\* its counter, stdout, start_line and end_line are those it had then.
C18_HandedOverDictUnchanged ==
  \A i \in 2..Len(sink) :
    reused[i] => Assigned4(sink[i]) = Assigned4(sink[i - 1])

\* C19: every event handed to the callback other than that of close has the
\* items event, counter, stdout, start_line and end_line.
C19_EventsCarryAllFields ==
  \A i \in 1..Len(sink) :
    ~IsSentinel(sink[i]) =>
      {"event", "counter", "stdout", "start_line", "end_line"}
        \subseteq DOMAIN sink[i]

\* The events that the call of a step hands over when event_callback does
\* not raise.
EventsOfCall ==
  IF last'.op = "close" THEN close(filter).out
  ELSE IF kind = "event" THEN write(filter, DataOfStep).out
  ELSE verbose_write(filter, DataOfStep).out

\* C20: when event_callback raises during write or close, the call raises,
\* and the callback has been called with the events up to the one it raised
\* on, once each, and with none after it.
C20_SinkErrorPropagates ==
  [][last'.sink_raised # 0 =>
       /\ last'.raised
       /\ EventsOfStep = SubSeq(EventsOfCall, 1, last'.sink_raised)]_vars

C20_Witness ==
  /\ kind = "event"
  /\ last.op = "write"
  /\ last.sink_raised = 1
  /\ last.raised
  /\ written = <<"h", "e", "l", "l", "o", "\n", "h", "e", "l", "l", "o", "\n">>
                 \o MarkerX
  /\ sink = <<[event |-> "verbose", counter |-> 1,
               stdout |-> <<"h", "e", "l", "l">>,
               start_line |-> 0, end_line |-> 1]>>
  /\ filter.buffer = written
  /\ filter.counter = 1

\* C21: a write to an OutputEventFilter whose data, put after the chunk
\* kept from the call before, does not hold the escape token does not
\* search: it hands over no event and changes only the buffer, which gets
\* the data at its end, and the chunk kept.
C21_NoTokenNoSearch ==
  [][(/\ kind = "event"
      /\ last'.op = "write"
      /\ ~Contains(filter.last_chunk \o DataOfStep, EventToken)) =>
       /\ ~last'.searched
       /\ last'.matches = 0
       /\ ~last'.raised
       /\ EventsOfStep = <<>>
       /\ filter' = [filter EXCEPT !.buffer = @ \o DataOfStep,
                                   !.last_chunk = DataOfStep]]_vars

C21_Witness ==
  /\ kind = "event"
  /\ last.op = "write"
  /\ ~last.searched
  /\ filter.counter = 1
  /\ filter.current_event_data # PyNone
  /\ filter.buffer = <<"o", "\r", "\n", "h", "e">>
  /\ filter.last_chunk = <<"h", "e">>
  /\ Len(sink) = 1

\* The pending record that _emit_event leaves for a decoded value.
PendingFor(decoded) == IF CarriesUuid(decoded) THEN decoded ELSE PyNone

\* C22: _emit_event with an empty text and no pending record hands over no
\* event and leaves the counter and the line cursor as they are; the pending
\* record becomes the decoded record when that has a uuid.  In a write: a
\* single marker matched at the very start of the buffer when no record is
\* pending, and a second marker matched directly after a first whose record
\* has no uuid.
C22_EmptySpanNoPendingEmitsNothing ==
  [][(kind = "event" /\ last'.op = "write" /\ last'.matches \in {1, 2}) =>
       \A value \in {filter.buffer \o DataOfStep} :
         \A m \in {EventDataSearch(value)} :
           /\ (/\ last'.matches = 1
               /\ m.start = 1
               /\ filter.current_event_data = PyNone)
              => /\ EventsOfStep = <<>>
                 /\ filter'.counter = filter.counter
                 /\ filter'.start_line = filter.start_line
                 /\ filter'.current_event_data = PendingFor(last'.decoded)
           /\ (/\ last'.matches = 2
               /\ ~CarriesUuid(DecodeEventData(m.group))
               /\ EventDataSearch(From(value, m.end)).start = 1)
              => \A before \in {EventsUnderPending(
                                  SubSeq(value, 1, m.start - 1))} :
                   /\ EventsOfStep = before
                   /\ filter'.counter = filter.counter + Len(before)
                   /\ filter'.start_line =
                        filter.start_line
                          + CountNewlines(SubSeq(value, 1, m.start - 1))
                   /\ filter'.current_event_data =
                        PendingFor(last'.decoded)]_vars

\* A marker without a uuid and then, with nothing between, a marker with
\* one, written at once to a new filter.
C22_Witness ==
  /\ kind = "event"
  /\ last.op = "write"
  /\ last.matches = 2
  /\ written = MarkerX \o MarkerA
  /\ sink = <<>>
  /\ filter.counter = 0
  /\ filter.start_line = 0
  /\ filter.buffer = <<>>
  /\ filter.current_event_data =
       PyDict([uuid |-> "abc-1", event |-> "task_start"])

\* C23: after every write to an OutputEventFilter that returned the buffer
\* holds no complete marker.
C23_NoCompleteMarkerInBuffer ==
  (kind = "event" /\ last.op = "write" /\ ~last.raised)
    => ~EventDataSearch(filter.buffer).found

\* C24: a record with a uuid that is pending when close is called is handed
\* over by that close as one event with the items of the record, built from
\* what is left in the buffer, before the EOF event, also when the buffer
\* is empty; no record is pending afterwards.
C24_PendingRecordEmittedByClose ==
  [][(/\ kind = "event"
      /\ last'.op = "close"
      /\ filter.current_event_data # PyNone) =>
       /\ EventsOfStep =
            <<CorrelatedEvent(filter.current_event_data.items, filter.buffer,
                              filter.counter + 1, filter.start_line),
              [event |-> "EOF", final_counter |-> filter.counter + 1]>>
       /\ filter'.current_event_data = PyNone]_vars

\* The events of sink other than those of close, in order.
RECURSIVE NonSentinels(_)
NonSentinels(events) ==
  IF events = <<>> THEN <<>>
  ELSE IF IsSentinel(Head(events)) THEN NonSentinels(Tail(events))
  ELSE <<Head(events)>> \o NonSentinels(Tail(events))

\* C25: the line ranges of the events other than those of close tile the
\* output: the first starts at line 0, each later one starts where the one
\* before it ends, no range ends before it starts, and the line cursor of
\* the filter is where the last one ends.
C25_LineRangesTile ==
  \A events \in {NonSentinels(sink)} :
    /\ \A i \in 1..Len(events) :
         /\ events[i].start_line =
              IF i = 1 THEN 0 ELSE events[i - 1].end_line
         /\ events[i].start_line <= events[i].end_line
    /\ filter.start_line =
         IF events = <<>> THEN 0 ELSE events[Len(events)].end_line

\* Three events that cover one line each, an event of a record among the
\* events, and close was called.
C25_Witness ==
  \E events \in {NonSentinels(sink)} :
    /\ Len(events) >= 3
    /\ Len(events) < Len(sink)
    /\ events[1].end_line = 1
    /\ events[2].end_line = 2
    /\ events[3].start_line = 2
    /\ events[3].end_line = 3
    /\ \E i \in 1..Len(events) : "uuid" \in DOMAIN events[i]

\* C26: after a write or a close that returned, the line cursor plus the
\* newlines held in the buffer is the number of newlines written so far.
C26_CursorPlusBufferIsWritten ==
  ~last.raised =>
    filter.start_line + CountNewlines(filter.buffer) = CountNewlines(written)

\* C27: a write to an OutputEventFilter in which no marker is matched hands
\* over no event, and the text it was given stays in the buffer, whatever
\* the number of lines in it.
C27_WriteWithoutMatchEmitsNothing ==
  [][(kind = "event" /\ last'.op = "write" /\ last'.matches = 0) =>
       /\ EventsOfStep = <<>>
       /\ ~last'.raised
       /\ filter'.buffer = filter.buffer \o DataOfStep
       /\ filter'.counter = filter.counter]_vars

\* Two lines were written and then a call brought the opening token of a
\* marker: the buffer was searched, and nothing has been handed over.
C27_Witness ==
  /\ kind = "event"
  /\ last.op = "write"
  /\ last.searched
  /\ last.matches = 0
  /\ sink = <<>>
  /\ filter.buffer = <<"h", "e", "l", "l", "o", "\n",
                       "h", "e", "l", "l", "o", "\n">> \o EventToken
  /\ filter.last_chunk = EventToken

\* Whether tail is what text ends with.
IsSuffix(tail, text) ==
  /\ Len(tail) <= Len(text)
  /\ SubSeq(text, Len(text) - Len(tail) + 1, Len(text)) = tail

\* C28: after every write to an OutputVerboseFilter the buffer holds no
\* newline: it is empty or holds the end of the text written so far, from
\* after a line boundary on.
C28_VerboseBufferHasNoNewline ==
  (kind = "verbose" /\ last.op = "write") =>
    /\ ~Contains(filter.buffer, <<"\n">>)
    /\ IsSuffix(filter.buffer, written)
    /\ Len(filter.buffer) < Len(written) =>
         written[Len(written) - Len(filter.buffer)] \in LineBreaks

\* A line was handed over and the start of the next is in the buffer.
C28_Witness ==
  /\ kind = "verbose"
  /\ last.op = "write"
  /\ written = <<"h", "e", "l", "l", "o", "\n", "h", "e", "l">>
  /\ filter.buffer = <<"h", "e", "l">>
  /\ Len(sink) = 1

\* C29: an OutputVerboseFilter never has a pending record, and every event
\* it hands over other than that of close has event 'verbose' and the items
\* _emit_event assigns, and no other.
C29_VerboseFilterOnlyVerboseEvents ==
  kind = "verbose" =>
    /\ filter.current_event_data = PyNone
    /\ \A i \in 1..Len(sink) :
         ~IsSentinel(sink[i]) =>
           /\ DOMAIN sink[i] = {"event"} \cup Assigned
           /\ sink[i].event = "verbose"

\* A marker whose record has a uuid, and the line after it, were written to
\* an OutputVerboseFilter, which handed them over as one line, and closed.
C29_Witness ==
  /\ kind = "verbose"
  /\ closes = 1
  /\ written = MarkerU \o <<"o", "\r", "\n">>
  /\ Len(sink) = 2
  /\ sink[1].event = "verbose"
  /\ sink[1].stdout = MarkerU \o <<"o">>

====
